---- MODULE Spec2Model ----
(***************************************************************************)
(* Model of code/client/munkilib/osinstaller.py: StartOSInstallRunner      *)
(* (sigusr1_handler, get_tool_paths, get_os_version, start) and the        *)
(* module-level startosinstall(dmgpath).                                   *)
(*                                                                         *)
(* Byte/unicode strings are sequences of one-character strings.  Optional  *)
(* values (Python None) are sequences of length 0 or 1.                    *)
(***************************************************************************)
EXTENDS Integers, Sequences, FiniteSets, TLC

(***************************************************************************)
(* Bounds of the model.                                                    *)
(***************************************************************************)
\* ticks of the inactivity ceiling; the source sets 2 * 60 * 60 (line 169),
\* scaled down here so that the ceiling is reached within the bounds
timeout == 2
\* number of lines the subprocess writes to standard output in one run
MaxLines == 2
\* number of writes of the subprocess to standard error in one run
MaxErrWrites == 1
\* number of SIGUSR1 deliveries in one run
MaxSignals == 1

None == <<>>
Some(x) == <<x>>

(***************************************************************************)
(* Text constants of the source and the lines the subprocess may print.    *)
(***************************************************************************)
LicensePrefix1 ==
    <<"B","y"," ","u","s","i","n","g"," ","t","h","e"," ","a","g","r","e","e","t","o","l","i","c","e","n","s","e"," ","o","p","t","i","o","n">>

LicensePrefix2 ==
    <<"I","f"," ","y","o","u"," ","d","o"," ","n","o","t"," ","a","g","r","e","e",",">>

PreparingPrefix ==
    <<"P","r","e","p","a","r","i","n","g"," ">>

PreparingToRunPrefix ==
    <<"P","r","e","p","a","r","i","n","g"," ","t","o"," ","r","u","n"," ">>

LineLicense ==
    <<"B","y"," ","u","s","i","n","g"," ","t","h","e"," ","a","g","r","e","e","t","o","l","i","c","e","n","s","e"," ","o","p","t","i","o","n","\n">>

LineDisagree ==
    <<"I","f"," ","y","o","u"," ","d","o"," ","n","o","t"," ","a","g","r","e","e",","," ","q","u","i","t","\n">>

LinePrep42 ==
    <<"P","r","e","p","a","r","i","n","g"," ","4","2",".","0",".","\n">>

LinePrepToRun ==
    <<"P","r","e","p","a","r","i","n","g"," ","t","o"," ","r","u","n"," ","\n">>

LinePrepNaN ==
    <<"P","r","e","p","a","r","i","n","g"," ","N","a","N","%","\n">>

LinePrepInf ==
    <<"P","r","e","p","a","r","i","n","g"," ","i","n","f","\n">>

LinePrep150 ==
    <<"P","r","e","p","a","r","i","n","g"," ","1","5","0",".",".",".","\n">>

LinePrepNeg ==
    <<"P","r","e","p","a","r","i","n","g"," ","-","7",".","9","\n">>

LineStatus ==
    <<"D","o","n","e","\n">>

\* a line holding a byte that is no valid UTF-8
LineBadUtf8 ==
    <<"0xFF","\n">>

ErrLine1 ==
    <<"E","1","\n">>

ErrLine2 ==
    <<"E","2","\n">>

\* what the subprocess may write to standard output, one line at a time
StdoutLines ==
    {LineLicense, LinePrep42, LinePrepInf, LineStatus, LineBadUtf8}

\* what the subprocess may write to standard error in one write
StderrWrites == {ErrLine2 \o ErrLine1}

\* exit statuses of the subprocess (negative: ended by a signal)
ExitCodes == {0, 1, -15}

(***************************************************************************)
(* String functions of the Python runtime, as the code uses them.          *)
(***************************************************************************)
Whitespace == {" ", "\t", "\n", "\r", "\f"}
Digits == {"0","1","2","3","4","5","6","7","8","9"}
InvalidBytes == {"0xFF"}

\* s.startswith(p)
startswith(s, p) ==
    /\ Len(s) >= Len(p)
    /\ SubSeq(s, 1, Len(p)) = p

RECURSIVE rstripSet(_, _)
\* s.rstrip(chars): drops every trailing character that is in chars
rstripSet(s, chars) ==
    IF s # <<>> /\ s[Len(s)] \in chars
    THEN rstripSet(SubSeq(s, 1, Len(s) - 1), chars)
    ELSE s

RECURSIVE lstripSet(_, _)
lstripSet(s, chars) ==
    IF s # <<>> /\ s[1] \in chars
    THEN lstripSet(Tail(s), chars)
    ELSE s

\* str.decode('UTF-8'): fails on a byte sequence that is no UTF-8
decodeOk(s) == \A i \in 1..Len(s) : s[i] \notin InvalidBytes

RECURSIVE splitlines(_)
\* str.splitlines(): the lines of s without their terminators
splitlines(s) ==
    IF s = <<>> THEN <<>>
    ELSE LET brk == {i \in 1..Len(s) : s[i] = "\n"}
         IN  IF brk = {} THEN <<s>>
             ELSE LET k == CHOOSE i \in brk : \A j \in brk : i <= j
                  IN  <<SubSeq(s, 1, k - 1)>> \o
                      splitlines(SubSeq(s, k + 1, Len(s)))

RECURSIVE Flatten(_)
\* the byte stream made of a sequence of writes
Flatten(ss) == IF ss = <<>> THEN <<>> ELSE Head(ss) \o Flatten(Tail(ss))

\* str.lower() on the letters float() looks at
lowerChar(c) ==
    CASE c = "I" -> "i" [] c = "N" -> "n" [] c = "F" -> "f" [] c = "T" -> "t"
      [] c = "Y" -> "y" [] c = "A" -> "a" [] c = "E" -> "e" [] OTHER -> c

lower(s) == [i \in 1..Len(s) |-> lowerChar(s[i])]

allDigits(s) == \A i \in 1..Len(s) : s[i] \in Digits

digitValue(c) ==
    CASE c = "0" -> 0 [] c = "1" -> 1 [] c = "2" -> 2 [] c = "3" -> 3
      [] c = "4" -> 4 [] c = "5" -> 5 [] c = "6" -> 6 [] c = "7" -> 7
      [] c = "8" -> 8 [] c = "9" -> 9

RECURSIVE toNat(_)
\* the value of a sequence of decimal digits (0 for the empty sequence)
toNat(s) ==
    IF s = <<>> THEN 0
    ELSE 10 * toNat(SubSeq(s, 1, Len(s) - 1)) + digitValue(s[Len(s)])

RECURSIVE pow10(_)
pow10(n) == IF n <= 0 THEN 1 ELSE 10 * pow10(n - 1)

\* position of the first occurrence of c in s, 0 if there is none
indexOf(s, c) ==
    LET at == {i \in 1..Len(s) : s[i] = c}
    IN  IF at = {} THEN 0 ELSE CHOOSE i \in at : \A j \in at : i <= j

FloatValue(kind, trunc) == [kind |-> kind, trunc |-> trunc]

\* the double written with the decimal digits all, scaled by 10^scale; a
\* value of more than 309 digits is beyond the largest double (1.79e308)
floatOfDigits(all, scale, neg) ==
    IF lstripSet(all, {"0"}) = <<>>
    THEN FloatValue("num", 0)
    ELSE IF Len(lstripSet(all, {"0"})) + scale > 309
    THEN FloatValue("inf", 0)
    ELSE IF scale >= 0
    THEN FloatValue("num", (IF neg THEN -1 ELSE 1) * toNat(all) * pow10(scale))
    ELSE IF Len(all) + scale <= 0
    THEN FloatValue("num", 0)
    ELSE FloatValue("num", (IF neg THEN -1 ELSE 1) *
                           toNat(SubSeq(all, 1, Len(all) + scale)))

\* digits [. digits] with the exponent eval
floatOfMantissa(ipart, fpart, eval, neg) ==
    IF allDigits(ipart) /\ allDigits(fpart) /\ Len(ipart) + Len(fpart) > 0
    THEN floatOfDigits(ipart \o fpart, eval - Len(fpart), neg)
    ELSE FloatValue("invalid", 0)

splitMantissa(mant, dpos, eval, neg) ==
    IF dpos = 0
    THEN floatOfMantissa(mant, <<>>, eval, neg)
    ELSE floatOfMantissa(SubSeq(mant, 1, dpos - 1),
                         SubSeq(mant, dpos + 1, Len(mant)), eval, neg)

\* the exponent part after "e": [sign] digits
floatOfExponent(mant, edig, eneg, neg) ==
    IF edig # <<>> /\ allDigits(edig)
    THEN splitMantissa(mant, indexOf(mant, "."),
                       (IF eneg THEN -1 ELSE 1) * toNat(edig), neg)
    ELSE FloatValue("invalid", 0)

splitExponent(body, epos, neg) ==
    IF epos = 0
    THEN splitMantissa(body, indexOf(body, "."), 0, neg)
    ELSE IF epos < Len(body) /\ body[epos + 1] \in {"+", "-"}
    THEN floatOfExponent(SubSeq(body, 1, epos - 1),
                         SubSeq(body, epos + 2, Len(body)),
                         body[epos + 1] = "-", neg)
    ELSE floatOfExponent(SubSeq(body, 1, epos - 1),
                         SubSeq(body, epos + 1, Len(body)), FALSE, neg)

\* the unsigned, lower-cased text of a float literal
floatOfBody(body, neg) ==
    IF body \in {<<"i","n","f">>, <<"i","n","f","i","n","i","t","y">>}
    THEN FloatValue("inf", 0)
    ELSE IF body = <<"n","a","n">>
    THEN FloatValue("nan", 0)
    ELSE splitExponent(body, indexOf(body, "e"), neg)

floatOfStripped(t) ==
    IF t # <<>> /\ t[1] \in {"+", "-"}
    THEN floatOfBody(lower(Tail(t)), t[1] = "-")
    ELSE floatOfBody(lower(t), FALSE)

\* float(s): kind is "invalid" (ValueError), "nan", "inf" or "num"; for a
\* number, trunc is int() of it, the value truncated toward zero
float(s) == floatOfStripped(lstripSet(rstripSet(s, Whitespace), Whitespace))

\* variant: a suffix that does not parse counts as 0 percent
percentOf_ZeroOnValueError(f) ==
    IF f.kind \in {"invalid", "nan"}
    THEN [raises |-> "none", percent |-> 0]
    ELSE IF f.kind = "inf"
    THEN [raises |-> "OverflowError", percent |-> 0]
    ELSE [raises |-> "none", percent |-> f.trunc]

\* "except ValueError" around int(float(...)): the exception that leaves the
\* try statement ("none" if there is none) and the value of percent
percentOf(f) ==
    IF f.kind \in {"invalid", "nan"}
    THEN [raises |-> "none", percent |-> -1]
    ELSE IF f.kind = "inf"
    THEN [raises |-> "OverflowError", percent |-> 0]
    ELSE [raises |-> "none", percent |-> f.trunc]

\* the text after "Preparing " as line 206 hands it to float()
PercentText(msg) ==
    rstripSet(rstripSet(SubSeq(msg, 11, Len(msg)), Whitespace), {"."})

\* int(float(msg[10:].rstrip().rstrip('.'))); the text is bound as a value,
\* so that it is computed once
parsePercent(msg) ==
    CHOOSE r \in {percentOf(float(text)) : text \in {PercentText(msg)}} : TRUE

\* the branch of the if/elif chain of the read loop that msg takes
classify(msg) ==
    IF startswith(msg, LicensePrefix1) THEN "license"
    ELSE IF startswith(msg, LicensePrefix2) THEN "license"
    ELSE IF startswith(msg, PreparingPrefix)
            /\ ~startswith(msg, PreparingToRunPrefix) THEN "progress"
    ELSE "status"

(***************************************************************************)
(* The collaborators of osinstaller.py and the inputs they hand back.      *)
(***************************************************************************)
\* the dmgpath arguments startosinstall is called with
DmgPaths == {"/tmp/Install.dmg", "/tmp/Install.txt"}

\* pkgutils.hasValidDiskImageExt(dmgpath)
hasValidDiskImageExt(path) == path \in {"/tmp/Install.dmg"}

\* what dmgutils.mountdmg(dmgpath) may return
MountResults == {<<>>, <<"/Volumes/A", "/Volumes/B">>}

\* what osutils.listdir(mountpoint) may return; HasTool is the set of
\* entries under which Contents/Resources/startosinstall exists
Listings ==
    {<<>>, <<"Readme.app">>,
     <<"Readme.app", "Install macOS Sierra.app", "Install macOS High Sierra.app">>}

HasTool == {"Install macOS Sierra.app", "Install macOS High Sierra.app"}

\* os.path.join(a, b)
join(a, b) == a \o "/" \o b

Version_10_12_3 == <<"1","0",".","1","2",".","3">>
Version_10_12_4 == <<"1","0",".","1","2",".","4">>
Version_10_9 == <<"1","0",".","9">>
Version_10_12_10 == <<"1","0",".","1","2",".","1","0">>
Version_10_13 == <<"1","0",".","1","3">>

\* Contents/SharedSupport/InstallInfo.plist of the bundle: its state is
\* "nofile" (no such file), "badplist" (a file that is no plist), "nokey" (a
\* plist without the keys) or "ok" (a plist with a version)
InstallInfo(state, version) == [state |-> state, version |-> version]

InstallInfos ==
    {InstallInfo("nofile", <<>>),
     InstallInfo("ok", Version_10_12_3),
     InstallInfo("ok", Version_10_12_4)}

\* the bundles whose version get_os_version resolves to one older than
\* 10.12.4: no readable version at all, or an older release
OlderInstallInfos ==
    {InstallInfo("nofile", <<>>),
     InstallInfo("badplist", <<>>),
     InstallInfo("nokey", <<>>),
     InstallInfo("ok", Version_10_9),
     InstallInfo("ok", Version_10_12_3)}

\* the bundles of 10.12.4 and of later releases
LaterInstallInfos ==
    {InstallInfo("ok", Version_10_12_4),
     InstallInfo("ok", Version_10_12_10),
     InstallInfo("ok", Version_10_13)}

\* StartOSInstallRunner.get_os_version
get_os_version(plist) ==
    IF plist.state = "nofile" THEN <<>>
    ELSE IF plist.state \in {"badplist", "nokey"} THEN <<>>
    ELSE plist.version

RECURSIVE splitDots(_)
\* the components of a version string
splitDots(s) ==
    LET k == indexOf(s, ".")
    IN  IF s = <<>> THEN <<>>
        ELSE IF k = 0 THEN <<toNat(s)>>
        ELSE (IF k = 1 THEN <<>> ELSE <<toNat(SubSeq(s, 1, k - 1))>>) \o
             splitDots(SubSeq(s, k + 1, Len(s)))

\* component i of a version, padded with zeros
versionAt(v, i) == IF i <= Len(v) THEN v[i] ELSE 0

\* pkgutils.MunkiLooseVersion(a) < pkgutils.MunkiLooseVersion(b)
MunkiLooseVersionLess(a, b) ==
    LET va == splitDots(a)
        vb == splitDots(b)
        n  == IF Len(va) > Len(vb) THEN Len(va) ELSE Len(vb)
    IN  \E i \in 1..n :
            /\ versionAt(va, i) < versionAt(vb, i)
            /\ \A j \in 1..(i - 1) : versionAt(va, j) = versionAt(vb, j)

\* which ptyexec exists: next to the library, in /usr/local/munki, nowhere
PtyexecCases == {"parent_dir", "usr_local_munki", "none"}

\* the wrapper part of cmd (lines 131-144)
wrapperCmd(exists) ==
    IF exists = "parent_dir" THEN <<"<parent_dir>/ptyexec">>
    ELSE IF exists = "usr_local_munki" THEN <<"/usr/local/munki/ptyexec">>
    ELSE <<"/usr/bin/script", "-q", "-t", "1", "/dev/null">>

\* variant: the 10.12.4 installer is given --volume too
buildCmd_VolumeUpTo_10_12_4(exists, startosinstall_path, app_path, os_version) ==
    wrapperCmd(exists) \o
    <<startosinstall_path, "--agreetolicense",
      "--applicationpath", app_path,
      "--rebootdelay", "300",
      "--pidtosignal", "<os.getpid()>",
      "--nointeraction">> \o
    (IF ~MunkiLooseVersionLess(Version_10_12_4, os_version)
     THEN <<"--volume", "/">> ELSE <<>>)

\* the argument vector start() hands to subprocess.Popen (lines 146-157)
buildCmd(exists, startosinstall_path, app_path, os_version) ==
    wrapperCmd(exists) \o
    <<startosinstall_path, "--agreetolicense",
      "--applicationpath", app_path,
      "--rebootdelay", "300",
      "--pidtosignal", "<os.getpid()>",
      "--nointeraction">> \o
    (IF MunkiLooseVersionLess(os_version, Version_10_12_4)
     THEN <<"--volume", "/">> ELSE <<>>)

(***************************************************************************)
(* State.                                                                  *)
(***************************************************************************)
VARIABLES
    installinfo,            \* the InstallInfo.plist of the bundle on the volume
    ptyexec,                \* where a ptyexec tool exists on this machine
    pc,                     \* position of the main thread in startosinstall
    dmgpath,                \* the argument of startosinstall
    handler_installed,      \* signal.signal(SIGUSR1, ...) has been called
    dmg_mountpoint,         \* self.dmg_mountpoint (None or Some(path))
    cmd,                    \* the argument vector of the Popen call
    launches,               \* number of subprocess.Popen calls of start()
    child,                  \* the subprocess: "none", "running",
                            \* "stdout_closed", "exited" or "killed"
    child_exit,             \* its exit status once it has ended
    child_stdout,           \* every line it has written to standard output
    stdout_pipe,            \* lines written to proc.stdout and not yet read
    child_stderr,           \* every write it has made to standard error
    stderr_pipe,            \* writes to proc.stderr that are not yet read
    returncode,             \* proc.returncode (None or Some(status))
    startosinstall_output,  \* the local list of start()
    inactive,               \* the local counter of start()
    events,                 \* calls of display, munkilog, munkistatus and
                            \* dmgutils made by the main thread, in order
    err,                    \* the exception raised and not yet handled
    result,                 \* "none", or what startosinstall returned
    sig_pending,            \* a SIGUSR1 is delivered and not yet handled
    sig_count,              \* number of SIGUSR1 deliveries so far
    hpc,                    \* position of sigusr1_handler: "idle", "sleep",
                            \* "killall"
    handler_events          \* what the runs of sigusr1_handler did, in order

vars ==
    <<installinfo, ptyexec, pc, dmgpath, handler_installed, dmg_mountpoint, cmd, launches, child,
      child_exit, child_stdout, stdout_pipe, child_stderr, stderr_pipe,
      returncode,
      startosinstall_output, inactive, events, err, result, sig_pending,
      sig_count, hpc, handler_events>>

envVars == <<installinfo, ptyexec>>

mainVars ==
    <<envVars, pc, dmgpath, handler_installed, dmg_mountpoint, cmd, launches,
      returncode, startosinstall_output, inactive, events, err, result>>

childVars ==
    <<child, child_exit, child_stdout, stdout_pipe, child_stderr, stderr_pipe>>

signalVars == <<sig_pending, sig_count, hpc, handler_events>>

NoText == <<>>
Event(kind, text, num, path) ==
    [kind |-> kind, text |-> text, num |-> num, path |-> path]

NoError == [type |-> "none", why |-> "none", code |-> None]
StartOSInstallError(why, code) ==
    [type |-> "StartOSInstallError", why |-> why, code |-> code]
OtherError(type) == [type |-> type, why |-> "none", code |-> None]

\* the state at the call of startosinstall(dmgpath), but for the files
InitRun ==
    /\ pc = "start"
    /\ dmgpath \in DmgPaths
    /\ handler_installed = FALSE
    /\ dmg_mountpoint = None
    /\ cmd = <<>>
    /\ launches = 0
    /\ child = "none"
    /\ child_exit = 0
    /\ child_stdout = <<>>
    /\ stdout_pipe = <<>>
    /\ child_stderr = <<>>
    /\ stderr_pipe = <<>>
    /\ returncode = None
    /\ startosinstall_output = <<>>
    /\ inactive = 0
    /\ events = <<>>
    /\ err = NoError
    /\ result = "none"
    /\ sig_pending = FALSE
    /\ sig_count = 0
    /\ hpc = "idle"
    /\ handler_events = <<>>

Init ==
    /\ installinfo \in InstallInfos
    /\ ptyexec \in PtyexecCases
    /\ InitRun

\* one machine: no usable InstallInfo.plist and no ptyexec tool
InitOneMachine ==
    /\ installinfo = InstallInfo("nofile", <<>>)
    /\ ptyexec = "none"
    /\ InitRun

(***************************************************************************)
(* The main thread: startosinstall(dmgpath) -> StartOSInstallRunner.start. *)
(* Python runs a signal handler in the main thread, so the main thread     *)
(* takes no step while sigusr1_handler is running (hpc # "idle").          *)
(***************************************************************************)
\* variant: start() goes on to get_tool_paths without installing the handler
InstallHandler_NotInstalled ==
    /\ pc = "start"
    /\ hpc = "idle"
    /\ handler_installed' = FALSE
    /\ pc' = "get_tool_paths"
    /\ UNCHANGED <<envVars, dmgpath, dmg_mountpoint, cmd, launches,
                   returncode, startosinstall_output, inactive, events, err,
                   result>>
    /\ UNCHANGED <<childVars, signalVars>>

\* start(): signal.signal(signal.SIGUSR1, self.sigusr1_handler)
InstallHandler ==
    /\ pc = "start"
    /\ hpc = "idle"
    /\ handler_installed' = TRUE
    /\ pc' = "get_tool_paths"
    /\ UNCHANGED <<envVars, dmgpath, dmg_mountpoint, cmd, launches,
                   returncode, startosinstall_output, inactive, events, err,
                   result>>
    /\ UNCHANGED <<childVars, signalVars>>

\* variant: the last mountpoint of the image is recorded
MountDmg_LastMountpoint ==
    /\ pc = "get_tool_paths"
    /\ hpc = "idle"
    /\ IF ~hasValidDiskImageExt(dmgpath)
       THEN /\ err' = StartOSInstallError("not_a_disk_image", None)
            /\ pc' = "raised"
            /\ UNCHANGED <<dmg_mountpoint, events>>
       ELSE \E mountpoints \in MountResults :
              LET ev == events \o
                        <<Event("display_info_mounting", NoText, 0, dmgpath),
                          Event("mountdmg", NoText, Len(mountpoints),
                                IF mountpoints = <<>> THEN ""
                                ELSE mountpoints[1])>>
              IN  IF mountpoints # <<>>
                  THEN /\ dmg_mountpoint' = Some(mountpoints[Len(mountpoints)])
                       /\ events' = ev
                       /\ pc' = "listdir"
                       /\ UNCHANGED err
                  ELSE /\ events' = ev
                       /\ err' = StartOSInstallError("no_filesystems", None)
                       /\ pc' = "raised"
                       /\ UNCHANGED dmg_mountpoint
    /\ UNCHANGED <<envVars, dmgpath, handler_installed, cmd, launches, returncode,
                   startosinstall_output, inactive, result>>
    /\ UNCHANGED <<childVars, signalVars>>

\* get_tool_paths: the extension check and dmgutils.mountdmg
MountDmg ==
    /\ pc = "get_tool_paths"
    /\ hpc = "idle"
    /\ IF ~hasValidDiskImageExt(dmgpath)
       THEN /\ err' = StartOSInstallError("not_a_disk_image", None)
            /\ pc' = "raised"
            /\ UNCHANGED <<dmg_mountpoint, events>>
       ELSE \E mountpoints \in MountResults :
              LET ev == events \o
                        <<Event("display_info_mounting", NoText, 0, dmgpath),
                          Event("mountdmg", NoText, Len(mountpoints),
                                IF mountpoints = <<>> THEN ""
                                ELSE mountpoints[1])>>
              IN  IF mountpoints # <<>>
                  THEN /\ dmg_mountpoint' = Some(mountpoints[1])
                       /\ events' = ev
                       /\ pc' = "listdir"
                       /\ UNCHANGED err
                  ELSE /\ events' = ev
                       /\ err' = StartOSInstallError("no_filesystems", None)
                       /\ pc' = "raised"
                       /\ UNCHANGED dmg_mountpoint
    /\ UNCHANGED <<envVars, dmgpath, handler_installed, cmd, launches, returncode,
                   startosinstall_output, inactive, result>>
    /\ UNCHANGED <<childVars, signalVars>>

\* the first entry of listing that holds the startosinstall tool, if any
FirstWithTool(listing) ==
    LET at == {i \in 1..Len(listing) : listing[i] \in HasTool}
    IN  IF at = {} THEN None
        ELSE Some(listing[CHOOSE i \in at : \A j \in at : i <= j])

\* the rest of start() up to subprocess.Popen, for the bundle at item_path:
\* get_os_version, display_status_major, the command line, Popen and the
\* initialisation of the locals of the read loop
Launch(item_path) ==
    LET os_version == get_os_version(installinfo)
        startosinstall_path ==
            join(item_path, "Contents/Resources/startosinstall")
    IN  /\ cmd' = buildCmd(ptyexec, startosinstall_path, item_path,
                           os_version)
        /\ events' = events \o
               <<Event("display_status_major_starting", os_version, 0, ""),
                 Event("Popen", NoText, 0, "")>>
        /\ launches' = launches + 1
        /\ child' = "running"
        /\ startosinstall_output' = <<>>
        /\ inactive' = 0
        /\ pc' = "loop"

\* get_tool_paths: the search of the first mountpoint; with a bundle found,
\* start() goes on to launch the installer
FindToolAndLaunch ==
    /\ pc = "listdir"
    /\ hpc = "idle"
    /\ \E listing \in Listings :
         LET found == FirstWithTool(listing)
         IN  IF found # None
             THEN /\ Launch(join(dmg_mountpoint[1], found[1]))
                  /\ UNCHANGED <<dmg_mountpoint, err>>
             ELSE /\ events' = events \o
                        <<Event("unmountdmg", NoText, 0, dmgpath)>>
                  /\ dmg_mountpoint' = None
                  /\ err' = StartOSInstallError("app_not_found", None)
                  /\ pc' = "raised"
                  /\ UNCHANGED <<cmd, launches, child, startosinstall_output,
                                 inactive>>
    /\ UNCHANGED <<envVars, dmgpath, handler_installed, returncode, result>>
    /\ UNCHANGED <<child_exit, child_stdout, stdout_pipe, child_stderr,
                   stderr_pipe>>
    /\ UNCHANGED signalVars

\* the if/elif chain of the read loop for a line of branch kind whose
\* percent parses as pp
ClassifyAndDisplay(msg, kind, pp) ==
    IF kind = "progress" /\ pp.raises # "none"
    THEN /\ err' = OtherError(pp.raises)
         /\ pc' = "raised"
         /\ UNCHANGED events
    ELSE /\ events' = events \o
               (IF kind = "license" THEN <<>>
                ELSE IF kind = "progress"
                THEN <<Event("display_percent_done", NoText, pp.percent, "")>>
                ELSE <<Event("display_status_minor", msg, 0, "")>>)
         /\ UNCHANGED <<err, pc>>

\* the body of the read loop after readline() returned the line info_output
HandleLine(info_output, msg) ==
    /\ inactive' = 0
    /\ IF ~decodeOk(info_output)
       THEN /\ err' = OtherError("UnicodeDecodeError")
            /\ pc' = "raised"
            /\ UNCHANGED <<startosinstall_output, events>>
       ELSE /\ startosinstall_output' =
                   Append(startosinstall_output, info_output)
            /\ ClassifyAndDisplay(msg, classify(msg),
                   IF classify(msg) = "progress" THEN parsePercent(msg)
                   ELSE [raises |-> "none", percent |-> 0])

\* one pass of the read loop in which readline() returns a line
LoopLine ==
    /\ pc = "loop"
    /\ hpc = "idle"
    /\ stdout_pipe # <<>>
    /\ stdout_pipe' = Tail(stdout_pipe)
    /\ HandleLine(Head(stdout_pipe), rstripSet(Head(stdout_pipe), {"\n"}))
    /\ UNCHANGED <<envVars, dmgpath, handler_installed, dmg_mountpoint, cmd, launches,
                   returncode, result>>
    /\ UNCHANGED <<child, child_exit, child_stdout, child_stderr, stderr_pipe>>
    /\ UNCHANGED signalVars

\* variant: the loop polls the subprocess before it reads
LoopEmpty_PollFirst ==
    /\ pc = "loop"
    /\ hpc = "idle"
    /\ child = "exited" \/ (stdout_pipe = <<>> /\ child = "stdout_closed")
    /\ IF child = "exited"
       THEN /\ returncode' = Some(child_exit)
            /\ pc' = "after_loop"
            /\ UNCHANGED <<inactive, events, child, child_exit>>
       ELSE /\ inactive' = inactive + 1
            /\ UNCHANGED returncode
            /\ IF inactive + 1 >= timeout
               THEN /\ events' = events \o
                          <<Event("display_error_timeout", NoText, timeout, ""),
                            Event("kill", NoText, 0, "")>>
                    /\ child' = "killed"
                    /\ child_exit' = -9
                    /\ pc' = "after_loop"
               ELSE /\ pc' = "sleep"
                    /\ UNCHANGED <<events, child, child_exit>>
    /\ UNCHANGED <<envVars, dmgpath, handler_installed, dmg_mountpoint, cmd, launches,
                   startosinstall_output, err, result>>
    /\ UNCHANGED <<child_stdout, stdout_pipe, child_stderr, stderr_pipe>>
    /\ UNCHANGED signalVars

\* variant: the subprocess is killed one pass after the ceiling
LoopEmpty_KillLate ==
    /\ pc = "loop"
    /\ hpc = "idle"
    /\ stdout_pipe = <<>>
    /\ child \in {"stdout_closed", "exited"}
    /\ IF child = "exited"
       THEN /\ returncode' = Some(child_exit)
            /\ pc' = "after_loop"
            /\ UNCHANGED <<inactive, events, child, child_exit>>
       ELSE /\ inactive' = inactive + 1
            /\ UNCHANGED returncode
            /\ IF inactive + 1 > timeout
               THEN /\ events' = events \o
                          <<Event("display_error_timeout", NoText, timeout, ""),
                            Event("kill", NoText, 0, "")>>
                    /\ child' = "killed"
                    /\ child_exit' = -9
                    /\ pc' = "after_loop"
               ELSE /\ pc' = "sleep"
                    /\ UNCHANGED <<events, child, child_exit>>
    /\ UNCHANGED <<envVars, dmgpath, handler_installed, dmg_mountpoint, cmd, launches,
                   startosinstall_output, err, result>>
    /\ UNCHANGED <<child_stdout, stdout_pipe, child_stderr, stderr_pipe>>
    /\ UNCHANGED signalVars

\* one pass of the read loop in which readline() returns the empty string:
\* standard output is at end of file (readline blocks while it is open)
LoopEmpty ==
    /\ pc = "loop"
    /\ hpc = "idle"
    /\ stdout_pipe = <<>>
    /\ child \in {"stdout_closed", "exited"}
    /\ IF child = "exited"
       THEN \* proc.poll() is not None: break
            /\ returncode' = Some(child_exit)
            /\ pc' = "after_loop"
            /\ UNCHANGED <<inactive, events, child, child_exit>>
       ELSE /\ inactive' = inactive + 1
            /\ UNCHANGED returncode
            /\ IF inactive + 1 >= timeout
               THEN \* display_error, proc.kill(), break
                    /\ events' = events \o
                          <<Event("display_error_timeout", NoText, timeout, ""),
                            Event("kill", NoText, 0, "")>>
                    /\ child' = "killed"
                    /\ child_exit' = -9
                    /\ pc' = "after_loop"
               ELSE /\ pc' = "sleep"
                    /\ UNCHANGED <<events, child, child_exit>>
    /\ UNCHANGED <<envVars, dmgpath, handler_installed, dmg_mountpoint, cmd, launches,
                   startosinstall_output, err, result>>
    /\ UNCHANGED <<child_stdout, stdout_pipe, child_stderr, stderr_pipe>>
    /\ UNCHANGED signalVars

\* time.sleep(1); continue
LoopSleep ==
    /\ pc = "sleep"
    /\ hpc = "idle"
    /\ pc' = "loop"
    /\ UNCHANGED <<envVars, dmgpath, handler_installed, dmg_mountpoint, cmd, launches,
                   returncode, startosinstall_output, inactive, events, err,
                   result>>
    /\ UNCHANGED <<childVars, signalVars>>

\* variant: only a positive status counts as a failure
Truthy_PositiveOnly(retcode) == retcode # None /\ retcode[1] > 0

\* Python truth value of proc.returncode
Truthy(retcode) == retcode # None /\ retcode[1] # 0

\* variant: standard error is put in front of the lines read
ExtendWithStderr_Prepend(output, data) == splitlines(data) \o output

\* startosinstall_output.extend(proc.stderr.read().splitlines())
ExtendWithStderr(output, data) == output \o splitlines(data)

\* display_error of every line of output, bracketed by separator lines
DumpEvents(output) ==
    <<Event("display_error_separator", NoText, 78, "")>> \o
    [i \in 1..Len(output) |->
        Event("display_error_line", rstripSet(output[i], {"\n"}), 0, "")] \o
    <<Event("display_error_separator", NoText, 78, "")>>

\* variant: the volume is unmounted after the diagnostics
FailureEvents_UnmountLast(mountpoint, retcode, output) ==
    <<Event("display_status_minor_failed", NoText, retcode, "")>> \o
    DumpEvents(output) \o
    <<Event("unmountdmg", NoText, 0, mountpoint)>>

\* the calls of the "if retcode:" branch, in order; output is the list
\* after the extension with standard error
FailureEvents(mountpoint, retcode, output) ==
    <<Event("unmountdmg", NoText, 0, mountpoint),
      Event("display_status_minor_failed", NoText, retcode, "")>> \o
    DumpEvents(output)

\* variant: the volume is unmounted on success too
SuccessEvents_Unmount ==
    <<Event("unmountdmg", NoText, 0, dmg_mountpoint[1]),
      Event("munkilog_success", NoText, 0, ""),
      Event("munkistatus_percent", NoText, 100, "")>>

\* variant: the completion event comes before the log line
SuccessEvents_PercentFirst ==
    <<Event("munkistatus_percent", NoText, 100, ""),
      Event("munkilog_success", NoText, 0, "")>>

\* the calls of the else branch, in order
SuccessEvents ==
    <<Event("munkilog_success", NoText, 0, ""),
      Event("munkistatus_percent", NoText, 100, "")>>

\* "osinstaller exited": the code after the read loop
AfterLoop ==
    /\ pc = "after_loop"
    /\ hpc = "idle"
    /\ IF Truthy(returncode)
       THEN /\ startosinstall_output' =
                   ExtendWithStderr(startosinstall_output, Flatten(stderr_pipe))
            /\ stderr_pipe' = <<>>
            /\ events' = events \o
                   FailureEvents(dmg_mountpoint[1], returncode[1],
                                 startosinstall_output')
            /\ err' = StartOSInstallError("return_code", returncode)
            /\ pc' = "raised"
       ELSE /\ events' = events \o SuccessEvents
            /\ pc' = "start_returned"
            /\ UNCHANGED <<startosinstall_output, stderr_pipe, err>>
    /\ UNCHANGED <<envVars, dmgpath, handler_installed, dmg_mountpoint, cmd, launches,
                   returncode, inactive, result>>
    /\ UNCHANGED <<child, child_exit, child_stdout, stdout_pipe, child_stderr>>
    /\ UNCHANGED signalVars

\* startosinstall: start() returned, "return True"
ReturnTrue ==
    /\ pc = "start_returned"
    /\ hpc = "idle"
    /\ result' = "True"
    /\ pc' = "done"
    /\ UNCHANGED <<envVars, dmgpath, handler_installed, dmg_mountpoint, cmd, launches,
                   returncode, startosinstall_output, inactive, events, err>>
    /\ UNCHANGED <<childVars, signalVars>>

\* startosinstall: "except StartOSInstallError"; any other exception leaves
\* startosinstall
Except ==
    /\ pc = "raised"
    /\ hpc = "idle"
    /\ IF err.type = "StartOSInstallError"
       THEN /\ events' = events \o
                  <<Event("display_error_starting", NoText, 0, "")>>
            /\ result' = "False"
            /\ err' = NoError
            /\ pc' = "done"
       ELSE /\ pc' = "escaped"
            /\ UNCHANGED <<events, result, err>>
    /\ UNCHANGED <<envVars, dmgpath, handler_installed, dmg_mountpoint, cmd, launches,
                   returncode, startosinstall_output, inactive>>
    /\ UNCHANGED <<childVars, signalVars>>

(***************************************************************************)
(* The installer subprocess.                                               *)
(***************************************************************************)
ChildWriteStdout ==
    /\ child = "running"
    /\ Len(child_stdout) < MaxLines
    /\ \E line \in StdoutLines :
          /\ child_stdout' = Append(child_stdout, line)
          /\ stdout_pipe' = Append(stdout_pipe, line)
    /\ UNCHANGED <<child, child_exit, child_stderr, stderr_pipe>>
    /\ UNCHANGED <<mainVars, signalVars>>

ChildWriteStderr ==
    /\ child \in {"running", "stdout_closed"}
    /\ Len(child_stderr) < MaxErrWrites
    /\ \E data \in StderrWrites :
          /\ child_stderr' = Append(child_stderr, data)
          /\ stderr_pipe' = Append(stderr_pipe, data)
    /\ UNCHANGED <<child, child_exit, child_stdout, stdout_pipe>>
    /\ UNCHANGED <<mainVars, signalVars>>

\* the subprocess closes its standard output and keeps running
ChildCloseStdout ==
    /\ child = "running"
    /\ child' = "stdout_closed"
    /\ UNCHANGED <<child_exit, child_stdout, stdout_pipe, child_stderr,
                   stderr_pipe>>
    /\ UNCHANGED <<mainVars, signalVars>>

ChildExit ==
    /\ child \in {"running", "stdout_closed"}
    /\ \E c \in ExitCodes : child_exit' = c
    /\ child' = "exited"
    /\ UNCHANGED <<child_stdout, stdout_pipe, child_stderr, stderr_pipe>>
    /\ UNCHANGED <<mainVars, signalVars>>

(***************************************************************************)
(* SIGUSR1 and StartOSInstallRunner.sigusr1_handler.                       *)
(***************************************************************************)
\* a SIGUSR1 reaches the supervisor; pending signals of one number merge
DeliverSIGUSR1 ==
    /\ handler_installed
    /\ sig_count < MaxSignals
    /\ sig_pending' = TRUE
    /\ sig_count' = sig_count + 1
    /\ UNCHANGED <<hpc, handler_events>>
    /\ UNCHANGED <<mainVars, childVars>>

\* variant: the handler goes on to killall without its time.sleep(1)
HandlerEnter_NoDelay ==
    /\ sig_pending
    /\ hpc = "idle"
    /\ sig_pending' = FALSE
    /\ handler_events' = Append(handler_events, "display_info_got_sigusr1")
    /\ hpc' = "killall"
    /\ UNCHANGED sig_count
    /\ UNCHANGED <<mainVars, childVars>>

\* the interpreter calls sigusr1_handler: display_info
HandlerEnter ==
    /\ sig_pending
    /\ hpc = "idle"
    /\ sig_pending' = FALSE
    /\ handler_events' = Append(handler_events, "display_info_got_sigusr1")
    /\ hpc' = "sleep"
    /\ UNCHANGED sig_count
    /\ UNCHANGED <<mainVars, childVars>>

\* variant: the handler clears the inactivity counter of the read loop
HandlerSleep_ResetsInactive ==
    /\ hpc = "sleep"
    /\ handler_events' = Append(handler_events, "sleep")
    /\ hpc' = "killall"
    /\ inactive' = 0
    /\ UNCHANGED <<sig_pending, sig_count>>
    /\ UNCHANGED <<envVars, pc, dmgpath, handler_installed, dmg_mountpoint, cmd, launches,
                   returncode, startosinstall_output, events, err, result>>
    /\ UNCHANGED childVars

\* time.sleep(1) of the handler
HandlerSleep ==
    /\ hpc = "sleep"
    /\ handler_events' = Append(handler_events, "sleep")
    /\ hpc' = "killall"
    /\ UNCHANGED <<sig_pending, sig_count>>
    /\ UNCHANGED <<mainVars, childVars>>

\* subprocess.call(['/usr/bin/killall', '-SIGUSR1', 'startosinstall'])
HandlerKillall ==
    /\ hpc = "killall"
    /\ handler_events' = Append(handler_events, "killall_SIGUSR1")
    /\ hpc' = "idle"
    /\ UNCHANGED <<sig_pending, sig_count>>
    /\ UNCHANGED <<mainVars, childVars>>

HandlerStep == HandlerEnter \/ HandlerSleep \/ HandlerKillall

Next ==
    \/ InstallHandler
    \/ MountDmg
    \/ FindToolAndLaunch
    \/ LoopLine
    \/ LoopEmpty
    \/ LoopSleep
    \/ AfterLoop
    \/ ReturnTrue
    \/ Except
    \/ ChildWriteStdout
    \/ ChildWriteStderr
    \/ ChildCloseStdout
    \/ ChildExit
    \/ DeliverSIGUSR1
    \/ HandlerEnter
    \/ HandlerSleep
    \/ HandlerKillall

Spec == Init /\ [][Next]_vars

\* the runs on one machine, in which the interpreter runs a pending handler
\* and the handler runs to its end
FairSpec ==
    /\ InitOneMachine
    /\ [][Next]_vars
    /\ WF_vars(HandlerEnter)
    /\ WF_vars(HandlerSleep)
    /\ WF_vars(HandlerKillall)

\* a step of the main thread
MainThread ==
    \/ InstallHandler
    \/ MountDmg
    \/ FindToolAndLaunch
    \/ LoopLine
    \/ LoopEmpty
    \/ LoopSleep
    \/ AfterLoop
    \/ ReturnTrue
    \/ Except

\* the runs on one machine in which the main thread too goes on whenever it
\* can: it stops only where the code waits (readline on an open pipe with
\* nothing to read); nothing obliges the subprocess to write, close or exit
LoopFairSpec ==
    /\ FairSpec
    /\ WF_vars(MainThread)

\* start() up to subprocess.Popen, over every kind of bundle
InitLaunch ==
    /\ installinfo \in OlderInstallInfos \cup LaterInstallInfos
    /\ ptyexec \in PtyexecCases
    /\ InitRun

NextLaunch ==
    \/ InstallHandler
    \/ MountDmg
    \/ FindToolAndLaunch

LaunchSpec == InitLaunch /\ [][NextLaunch]_vars

\* every kind of line the read loop tells apart
AllStdoutLines ==
    StdoutLines \cup
    {LineDisagree, LinePrepToRun, LinePrepNaN, LinePrep150, LinePrepNeg}

\* the sequences of one to n elements of S
SeqsUpTo(S, n) == UNION {[1..k -> S] : k \in 1..n}

\* the state right after subprocess.Popen on one machine, with the first
\* lines of the subprocess already written to its standard output
InitLines ==
    /\ installinfo = InstallInfo("nofile", <<>>)
    /\ ptyexec = "none"
    /\ pc = "loop"
    /\ dmgpath = "/tmp/Install.dmg"
    /\ handler_installed = TRUE
    /\ dmg_mountpoint = Some("/Volumes/A")
    /\ cmd = buildCmd("none",
                      join(join("/Volumes/A", "Install macOS Sierra.app"),
                           "Contents/Resources/startosinstall"),
                      join("/Volumes/A", "Install macOS Sierra.app"), <<>>)
    /\ launches = 1
    /\ child = "running"
    /\ child_exit = 0
    /\ child_stdout \in SeqsUpTo(AllStdoutLines, MaxLines)
    /\ stdout_pipe = child_stdout
    /\ child_stderr = <<>>
    /\ stderr_pipe = <<>>
    /\ returncode = None
    /\ startosinstall_output = <<>>
    /\ inactive = 0
    /\ events =
          <<Event("display_info_mounting", NoText, 0, "/tmp/Install.dmg"),
            Event("mountdmg", NoText, 2, "/Volumes/A"),
            Event("display_status_major_starting", <<>>, 0, ""),
            Event("Popen", NoText, 0, "")>>
    /\ err = NoError
    /\ result = "none"
    /\ sig_pending = FALSE
    /\ sig_count = 0
    /\ hpc = "idle"
    /\ handler_events = <<>>

\* the read loop and what follows it, for a subprocess that writes nothing
\* more
NextLines ==
    \/ LoopLine
    \/ LoopEmpty
    \/ LoopSleep
    \/ AfterLoop
    \/ ReturnTrue
    \/ Except
    \/ ChildCloseStdout
    \/ ChildExit

LineSpec == InitLines /\ [][NextLines]_vars

(***************************************************************************)
(* Properties.                                                             *)
(***************************************************************************)
\* positions of the events of the main thread whose kind is in kinds
EventsAt(kinds) == {i \in 1..Len(events) : events[i].kind \in kinds}

CountOf(kinds) == Cardinality(EventsAt(kinds))

\* the read loop was left through proc.kill()
TimedOut == EventsAt({"kill"}) # {}

\* startosinstall has ended: it returned, or an exception left it
Ended == pc \in {"done", "escaped"}

\* the run took the "if retcode:" branch or is past it
FailureKinds ==
    {"display_status_minor_failed", "display_error_separator",
     "display_error_line", "display_error_starting"}

\* C1: once the inactivity counter has reached the ceiling and the subprocess
\* was killed, the run ends in failure: neither the "successfully set up" log
\* line nor the 100% event is ever emitted, and startosinstall ends by
\* returning False.
C1_TimeoutEndsInFailure ==
    TimedOut =>
        /\ CountOf({"munkilog_success", "munkistatus_percent"}) = 0
        /\ pc # "start_returned"
        /\ Ended => result = "False"

\* C2: on the inactivity-timeout path the volume has been unmounted exactly
\* once when the run ends.
C2_TimeoutUnmountsOnce ==
    (TimedOut /\ Ended) => CountOf({"unmountdmg"}) = 1

\* number of runs of sigusr1_handler that have begun, and of broadcasts made
HandlerRuns ==
    Cardinality({i \in 1..Len(handler_events) :
                    handler_events[i] = "display_info_got_sigusr1"})

Broadcasts ==
    Cardinality({i \in 1..Len(handler_events) :
                    handler_events[i] = "killall_SIGUSR1"})

\* C3: with the handler installed, every delivered SIGUSR1 leads to a killall
\* broadcast, and every broadcast directly follows the time.sleep(1) of the
\* handler run that makes it, whatever the main thread is doing.
C3_SignalLeadsToBroadcastAfterDelay ==
    /\ [](\A i \in 1..Len(handler_events) :
            handler_events[i] = "killall_SIGUSR1" =>
                /\ i >= 3
                /\ handler_events[i - 1] = "sleep"
                /\ handler_events[i - 2] = "display_info_got_sigusr1")
    /\ \A n \in 0..MaxSignals :
          (sig_pending /\ HandlerRuns = n) ~> (Broadcasts >= n + 1)

\* a broadcast was made while the read loop was between two empty reads
C3_Witness ==
    /\ Broadcasts >= 1
    /\ pc = "sleep"
    /\ inactive >= 1

\* the read loop saw the subprocess exited with a status other than 0
NonzeroExit == returncode # None /\ returncode[1] # 0

\* C4: when the subprocess exits with status c, start() returns normally only
\* for c = 0, raises StartOSInstallError carrying c for c # 0, no exception
\* leaves startosinstall, and startosinstall returns True iff c = 0.
C4_ExitStatusDecidesResult ==
    returncode # None =>
        /\ pc \in {"after_loop", "start_returned", "raised", "done"}
        /\ pc = "start_returned" => returncode[1] = 0
        /\ pc = "raised" =>
              /\ returncode[1] # 0
              /\ err = StartOSInstallError("return_code", returncode)
        /\ pc = "done" =>
              /\ result = (IF returncode[1] = 0 THEN "True" ELSE "False")
              /\ err = NoError

\* startosinstall returned False for a subprocess ended by a signal
C4_Witness ==
    /\ pc = "done"
    /\ returncode = Some(-15)
    /\ result = "False"

\* C5: after a nonzero exit the volume has been unmounted exactly once, and
\* the unmount comes before the failure status and every line of the dump.
C5_NonzeroExitUnmountsOnceFirst ==
    (NonzeroExit /\ pc \in {"raised", "done"}) =>
        /\ CountOf({"unmountdmg"}) = 1
        /\ CountOf({"display_status_minor_failed"}) = 1
        /\ \A i \in EventsAt({"unmountdmg"}) :
              /\ events[i].path = dmg_mountpoint[1]
              /\ \A j \in EventsAt(FailureKinds) : i < j

\* a failed run with a dump of several lines has ended
C5_Witness ==
    /\ pc = "done"
    /\ NonzeroExit
    /\ CountOf({"display_error_line"}) >= 3

\* C6: when the run ends in success no unmount was ever made and
\* dmg_mountpoint still is the first mountpoint mountdmg returned.
C6_SuccessLeavesVolumeMounted ==
    (pc = "start_returned" \/ result = "True") =>
        /\ CountOf({"unmountdmg"}) = 0
        /\ \E i \in EventsAt({"mountdmg"}) :
              /\ events[i].num > 0
              /\ dmg_mountpoint = Some(events[i].path)

\* startosinstall returned True after a zero exit status
C6_Witness ==
    /\ result = "True"
    /\ returncode = Some(0)
    /\ dmg_mountpoint # None

\* C7: after a zero exit status the 100% event is emitted once, it is the
\* last event of the main thread, the log line is right before it, and no
\* failure status or error-level output is emitted.
C7_CompletionEventIsLast ==
    (returncode = Some(0) /\ pc \in {"start_returned", "done"}) =>
        /\ CountOf({"munkistatus_percent"}) = 1
        /\ CountOf({"munkilog_success"}) = 1
        /\ events[Len(events)] = Event("munkistatus_percent", NoText, 100, "")
        /\ events[Len(events) - 1].kind = "munkilog_success"
        /\ CountOf(FailureKinds \cup {"display_error_timeout"}) = 0

\* a successful run that emitted both a Progress and a Status event
C7_Witness ==
    /\ pc = "done"
    /\ returncode = Some(0)
    /\ CountOf({"display_percent_done"}) >= 1
    /\ CountOf({"display_status_minor"}) >= 1

RECURSIVE JoinLines(_)
\* the byte stream whose lines are the texts of evs
JoinLines(evs) ==
    IF evs = <<>> THEN <<>>
    ELSE Head(evs).text \o <<"\n">> \o JoinLines(Tail(evs))

DumpAt == EventsAt({"display_error_separator", "display_error_line"})
DumpFirst == CHOOSE i \in DumpAt : \A j \in DumpAt : i <= j
DumpLast == CHOOSE i \in DumpAt : \A j \in DumpAt : j <= i

\* C8: after a nonzero exit the error-level dump is one separator, one line
\* per line of standard output in the order written, then the lines of
\* standard error in their order, then one separator.
C8_DumpIsTranscriptInOrder ==
    (NonzeroExit /\ pc \in {"raised", "done"}) =>
        /\ DumpAt = DumpFirst..DumpLast
        /\ EventsAt({"display_error_separator"}) = {DumpFirst, DumpLast}
        /\ DumpFirst < DumpLast
        /\ \A i \in EventsAt({"display_error_line"}) :
              \A k \in 1..Len(events[i].text) : events[i].text[k] # "\n"
        /\ JoinLines(SubSeq(events, DumpFirst + 1, DumpLast - 1)) =
              Flatten(child_stdout) \o Flatten(child_stderr)

\* a dump of a license line, a progress line and two lines of standard error
C8_Witness ==
    /\ pc = "done"
    /\ NonzeroExit
    /\ child_stdout = <<LineLicense, LinePrep42>>
    /\ child_stderr = <<ErrLine2 \o ErrLine1>>

\* C9: no step of sigusr1_handler changes the inactivity counter, the output
\* list, the recorded mountpoint or anything else the main thread owns.
C9_HandlerLeavesLoopStateAlone ==
    [][(hpc' # hpc \/ handler_events' # handler_events) =>
          UNCHANGED <<inactive, startosinstall_output, dmg_mountpoint, pc,
                      returncode, events, err, result>>]_vars

\* the handler is running between two empty reads of a loop that has output
C9_Witness ==
    /\ hpc = "killall"
    /\ pc = "sleep"
    /\ inactive >= 1
    /\ startosinstall_output # <<>>
    /\ dmg_mountpoint # None

\* C10: the installer is launched at most once, never without a mounted
\* volume, and a call that has ended has returned True or False.
C10_OneLaunchOneOutcome ==
    /\ launches <= 1
    /\ CountOf({"Popen"}) = launches
    /\ dmg_mountpoint = None => launches = 0
    /\ Ended => result \in {"True", "False"}
    /\ result # "none" => Ended

\* cmd ends with the pair --volume /
EndsWithVolumeRoot ==
    /\ Len(cmd) >= 2
    /\ cmd[Len(cmd) - 1] = "--volume"
    /\ cmd[Len(cmd)] = "/"

\* C11: the argument vector of the launch ends with --volume / exactly when
\* the resolved version is older than 10.12.4: it does for 10.12.3, 10.9 and
\* for a bundle without a readable version, and --volume is no argument at
\* all for 10.12.4, 10.12.10 and 10.13.
C11_VolumeFlagIffOlderThan_10_12_4 ==
    launches > 0 =>
        /\ EndsWithVolumeRoot <=>
              MunkiLooseVersionLess(get_os_version(installinfo),
                                    Version_10_12_4)
        /\ EndsWithVolumeRoot <=> installinfo \in OlderInstallInfos
        /\ installinfo \in LaterInstallInfos =>
              \A i \in 1..Len(cmd) : cmd[i] # "--volume"

\* the 10.12.10 installer was launched without --volume
C11_Witness ==
    /\ launches = 1
    /\ installinfo = InstallInfo("ok", Version_10_12_10)
    /\ cmd[Len(cmd)] = "--nointeraction"

\* the read loop reads a line in this step
ReadsLine ==
    /\ pc = "loop"
    /\ stdout_pipe # <<>>
    /\ stdout_pipe' = Tail(stdout_pipe)

\* line takes the progress branch and its suffix is no finite number
MalformedProgress(line) ==
    LET msg == rstripSet(line, {"\n"})
    IN  /\ decodeOk(line)
        /\ startswith(msg, PreparingPrefix)
        /\ ~startswith(msg, PreparingToRunPrefix)
        /\ float(PercentText(msg)).kind # "num"

\* C12: reading a "Preparing " line (not "Preparing to run ") whose suffix
\* is no well-formed finite number emits the progress event with percent -1,
\* raises nothing, and leaves the read loop running.
C12_MalformedProgressGivesMinusOne ==
    [][(ReadsLine /\ MalformedProgress(Head(stdout_pipe))) =>
          /\ pc' = "loop"
          /\ err' = NoError
          /\ events' = Append(events,
                 Event("display_percent_done", NoText, -1, ""))]_vars

\* the percents of the progress events so far, in order
PercentsShown ==
    LET shown == SelectSeq(events,
                     LAMBDA ev : ev.kind = "display_percent_done")
    IN  [i \in 1..Len(shown) |-> shown[i].num]

\* C13 as stated: every progress event carries a percent in 0..100 or the
\* sentinel -1, whatever "Preparing " line the subprocess prints.
C13_PercentInRangeOrSentinel ==
    \A i \in 1..Len(PercentsShown) : PercentsShown[i] \in (0..100) \cup {-1}

\* int(float(suffix)) for the lines with a finite numeric suffix, and the
\* sentinel for a suffix float() rejects
TruncatedPercent ==
    (LinePrep42 :> 42) @@ (LinePrep150 :> 150) @@ (LinePrepNeg :> -7) @@
    (LinePrepNaN :> -1)

\* C13, amended: the progress events carry, in the order of the lines, the
\* numeric suffix truncated toward zero, unclamped (42 for "42.0.", 150 for
\* "150...", -7 for "-7.9"), and -1 for a suffix float() rejects; so
\* the percent is in 0..100 or -1 whenever the suffix is malformed or a
\* number from 0 up to 101.
C13_PercentIsTruncatedSuffix ==
    LET lines == SelectSeq(startosinstall_output,
                     LAMBDA l : l \in DOMAIN TruncatedPercent)
    IN  /\ PercentsShown = [i \in 1..Len(lines) |-> TruncatedPercent[lines[i]]]
        /\ \A i \in 1..Len(lines) :
              lines[i] \in {LinePrep42, LinePrepNaN} =>
                  PercentsShown[i] \in (0..100) \cup {-1}

\* a percent below 0 that is not the sentinel, then the sentinel, were shown
C13_Witness ==
    /\ PercentsShown = <<-7, -1>>
    /\ pc = "loop"

\* dmgutils.mountdmg returned a list of n mountpoints with n > 0
MountSucceeded ==
    \E i \in EventsAt({"mountdmg"}) : events[i].num > 0

\* the first mountpoint dmgutils.mountdmg returned
FirstMountpoint ==
    LET i == CHOOSE j \in EventsAt({"mountdmg"}) : TRUE
    IN  events[i].path

\* C14 as stated: dmg_mountpoint is set exactly when the mount succeeded:
\* unset before the mount and after a mount that returned nothing, and the
\* first returned mountpoint in every state after a mount that returned
\* some.
C14_MountpointSetIffMounted ==
    /\ CountOf({"mountdmg"}) <= 1
    /\ ~MountSucceeded => dmg_mountpoint = None
    /\ MountSucceeded => dmg_mountpoint = Some(FirstMountpoint)

\* get_tool_paths found no installer bundle on the mounted volume
NoBundleFound ==
    /\ MountSucceeded
    /\ launches = 0
    /\ pc \in {"raised", "done"}

\* C14, amended: dmg_mountpoint is unset before the mount, after a mount
\* that returned nothing, and again once get_tool_paths found no installer
\* bundle on the volume; in every other state after a mount that returned
\* some mountpoints it is the first of them, also after the unmount of a
\* failed install.
C14_MountpointSetWhileVolumeInUse ==
    /\ CountOf({"mountdmg"}) <= 1
    /\ ~MountSucceeded => dmg_mountpoint = None
    /\ (MountSucceeded /\ NoBundleFound) => dmg_mountpoint = None
    /\ (MountSucceeded /\ ~NoBundleFound) =>
          dmg_mountpoint = Some(FirstMountpoint)

\* the call ended after a mount of two volumes with no bundle on the first
C14_Witness ==
    /\ pc = "done"
    /\ NoBundleFound
    /\ \E i \in EventsAt({"mountdmg"}) : events[i].num = 2
    /\ dmg_mountpoint = None

\* the read loop makes an empty read in this step and finds the subprocess
\* alive
EmptyReadAlive ==
    /\ pc = "loop"
    /\ stdout_pipe = <<>>
    /\ child = "stdout_closed"
    /\ pc' # "loop"

\* proc.kill() is called in this step
KillIssued ==
    /\ Len(events') > Len(events)
    /\ events'[Len(events')].kind = "kill"

\* C15: the inactivity counter starts at 0, goes up by one with every empty
\* read that finds the subprocess alive, is 0 after every line read, changes
\* in no other step and stays within 0..timeout; proc.kill() is called at
\* most once, only in an empty read that brings the counter to timeout, and
\* never after the loop has seen the subprocess exited.
C15_KillOnlyAtInactivityCeiling ==
    /\ [](inactive \in 0..timeout)
    /\ [](CountOf({"kill"}) <= 1)
    /\ []((pc \in {"start", "get_tool_paths", "listdir"}) => inactive = 0)
    /\ [][/\ EmptyReadAlive => inactive' = inactive + 1
          /\ ReadsLine => inactive' = 0
          /\ inactive' # inactive => (EmptyReadAlive \/ ReadsLine)
          /\ KillIssued =>
                /\ EmptyReadAlive
                /\ inactive' = timeout
                /\ returncode = None
                /\ child' = "killed"
          /\ (EmptyReadAlive /\ inactive' = timeout) => KillIssued
          /\ (child' = "killed" /\ child # "killed") => KillIssued]_vars

\* the subprocess was killed at the ceiling after some of its lines were read
C15_Witness ==
    /\ pc = "after_loop"
    /\ TimedOut
    /\ inactive = timeout
    /\ Len(startosinstall_output) >= 1

\* the run is at or past "retcode = proc.returncode"
PastLoop ==
    \/ pc \in {"after_loop", "start_returned"}
    \/ CountOf({"munkilog_success", "display_status_minor_failed"}) > 0

\* C16: whenever the run is at or past the reading of proc.returncode, the
\* read loop has seen the subprocess exited, and the return code it branches
\* on is the exit status of the subprocess, by whichever path the loop ended.
C16_ReturnCodeReadAfterExitObserved ==
    PastLoop =>
        /\ child = "exited"
        /\ returncode = Some(child_exit)

\* the mount was asked for, or the subprocess was launched
MountOrLaunchBegun ==
    \/ CountOf({"display_info_mounting", "mountdmg", "Popen"}) > 0
    \/ dmg_mountpoint # None
    \/ launches > 0
    \/ child # "none"

\* C17: the SIGUSR1 handler is installed by the first step of start(), with
\* nothing mounted and nothing launched yet, so it is installed in every
\* state in which the volume is mounted or the subprocess exists; no later
\* step installs it again or removes it.
C17_HandlerInstalledBeforeMountAndLaunch ==
    /\ [](MountOrLaunchBegun => handler_installed)
    /\ [](handler_installed <=> pc # "start")
    /\ [][handler_installed' # handler_installed =>
            /\ ~handler_installed
            /\ pc = "start"
            /\ ~MountOrLaunchBegun
            /\ events = <<>>]_vars
    /\ [][pc' = "start" => pc = "start"]_vars

\* a SIGUSR1 is pending while the subprocess is running
C17_Witness ==
    /\ child = "running"
    /\ handler_installed
    /\ sig_pending

\* get_tool_paths has raised: start() is over and nothing was launched
ResolutionFailed ==
    /\ launches = 0
    /\ pc \in {"raised", "done", "escaped"}

\* what every failure of get_tool_paths has in common: StartOSInstallError,
\* no subprocess, and False as the result of startosinstall
FailsWithoutLaunch ==
    /\ pc # "escaped"
    /\ pc = "raised" => err.type = "StartOSInstallError"
    /\ pc = "done" => result = "False"
    /\ child = "none"
    /\ CountOf({"Popen"}) = 0

\* the calls of dmgutils.unmountdmg are one call, for the mounted volume
UnmountedVolumeOnce ==
    /\ CountOf({"unmountdmg"}) = 1
    /\ \A i \in EventsAt({"unmountdmg"}) : events[i].path = FirstMountpoint

\* C18: when get_tool_paths fails, StartOSInstallError is raised, nothing is
\* launched and startosinstall returns False; for a path that is no disk
\* image dmgutils.mountdmg is never called; after a mount that returned
\* nothing there is no unmount and dmg_mountpoint is unset; with no bundle
\* found the mounted volume has been unmounted by exactly one call and
\* dmg_mountpoint is unset by the time the error is raised.
C18_ResolutionFailuresReleaseVolume ==
    ResolutionFailed =>
        /\ FailsWithoutLaunch
        /\ ~hasValidDiskImageExt(dmgpath) =>
              CountOf({"mountdmg", "unmountdmg"}) = 0
        /\ (CountOf({"mountdmg"}) = 1 /\ ~MountSucceeded) =>
              /\ CountOf({"unmountdmg"}) = 0
              /\ dmg_mountpoint = None
        /\ MountSucceeded =>
              /\ UnmountedVolumeOnce
              /\ dmg_mountpoint = None

\* the main thread is in the read loop
InLoop == pc \in {"loop", "sleep"}

\* C19: the read loop ends in every run. (The subprocess of the model writes
\* at most MaxLines lines, so in every run it stops producing lines or
\* exits, which is the condition the claim puts on the subprocess.)
C19_ReadLoopTerminates ==
    InLoop ~> ~InLoop

\* the display call the read loop makes for line, "none" for a license line
DisplayKindOf(line) ==
    LET kind == classify(rstripSet(line, {"\n"}))
    IN  IF kind = "license" THEN "none"
        ELSE IF kind = "progress" THEN "display_percent_done"
        ELSE "display_status_minor"

\* the display calls of the read loop so far, by kind, in order
LoopDisplayKinds ==
    LET shown == SelectSeq(events, LAMBDA ev :
                     ev.kind \in {"display_percent_done",
                                  "display_status_minor"})
    IN  [i \in 1..Len(shown) |-> shown[i].kind]

\* C20: once the read loop has seen the subprocess exited, nothing is left
\* in the pipe, the lines of startosinstall_output are the lines the
\* subprocess wrote, all of them and in order, and the loop has made the
\* display call of every line that is no license line, in order.
C20_NoLineLostOnExitPath ==
    returncode # None =>
        LET shown == SelectSeq(child_stdout,
                         LAMBDA l : DisplayKindOf(l) # "none")
        IN  /\ stdout_pipe = <<>>
            /\ Len(startosinstall_output) >= Len(child_stdout)
            /\ SubSeq(startosinstall_output, 1, Len(child_stdout)) =
                  child_stdout
            /\ pc = "after_loop" => startosinstall_output = child_stdout
            /\ LoopDisplayKinds =
                  [i \in 1..Len(shown) |-> DisplayKindOf(shown[i])]

\* the loop has seen the exit after a license line and a progress line
C20_Witness ==
    /\ pc = "after_loop"
    /\ returncode # None
    /\ startosinstall_output = <<LineLicense, LinePrep42>>
    /\ LoopDisplayKinds = <<"display_percent_done">>

====
